---- MODULE Spec2Model ----
(***************************************************************************)
(* Session Store (AuthProvider), Preference Store (ThemeProvider) and the  *)
(* AsyncStorage helpers of auth-amar, as a state machine.                  *)
(*                                                                         *)
(* JavaScript strings are sequences of one-character strings.  A React     *)
(* state update is applied when it is requested: the callbacks never read  *)
(* authState, they only replace it or apply an updater to the previous     *)
(* value, so the updates take effect in the order of the calls.  The one   *)
(* callback that reads state is toggleTheme, which reads the theme of the  *)
(* render of ThemeProvider that made it: renderedTheme is that theme.  A   *)
(* render is a step of its own after the update it shows; the screens show *)
(* the AuthState of the last render of AuthProvider (renderedAuthState).   *)
(* A handler runs without interruption up to its next await; every await   *)
(* on AsyncStorage or on the timer is a separate step.  An AsyncStorage    *)
(* call takes effect in the step in which it settles; the calls in flight  *)
(* settle in any order, each one with success or with a rejection.  The    *)
(* initial state is the one in which App has rendered ThemeProvider.       *)
(***************************************************************************)
EXTENDS Integers, Sequences, FiniteSets, TLC

\* ------------------------------------------------------------------ bounds
MaxEmailLen == 2
MaxPasswordLen == 6
MaxNameLen == 1
MaxCalls == 2
MaxClock == 2
MaxToggles == 2
MaxAlerts == 1

\* ------------------------------------------------------- program constants
\* the user record kept under the key of the theme
AUTH_USER_KEY_themeKey == "@app_theme"
AUTH_USER_KEY == "AUTH_USER"
THEME_STORAGE_KEY == "@app_theme"
MinPasswordLength == 6

\* ------------------------------------------------------------------ strings
SeqsUpTo(S, n) == UNION {[1..k -> S] : k \in 0..n}

Emails == SeqsUpTo({"a", "@"}, MaxEmailLen)
Passwords == SeqsUpTo({"p"}, MaxPasswordLen)
Names == SeqsUpTo({"n", " "}, MaxNameLen)

\* String.prototype.includes for a one-character needle
includes(s, ch) == \E i \in 1..Len(s) : s[i] = ch

\* s.split(ch)[0]: the part of s before the first ch, all of s without one
splitFirst(s, ch) ==
  IF includes(s, ch)
    THEN SubSeq(s, 1, (CHOOSE i \in 1..Len(s) :
                         s[i] = ch /\ \A j \in 1..(i - 1) : s[j] # ch) - 1)
    ELSE s

\* String.prototype.trim: " " is the only white space of the alphabets
RECURSIVE trimStart(_)
trimStart(s) == IF s # <<>> /\ Head(s) = " " THEN trimStart(Tail(s)) ELSE s
RECURSIVE trimEnd(_)
trimEnd(s) ==
  IF s # <<>> /\ s[Len(s)] = " " THEN trimEnd(SubSeq(s, 1, Len(s) - 1)) ELSE s
trim(s) == trimEnd(trimStart(s))

Digit(d) == <<"0", "1", "2", "3", "4", "5", "6", "7", "8", "9">>[d + 1]

\* Number.prototype.toString of a non-negative integer
RECURSIVE toString(_)
toString(n) == IF n < 10 THEN <<Digit(n)>>
               ELSE toString(n \div 10) \o <<Digit(n % 10)>>

\* --------------------------------------------------------------------- User
\* A JavaScript value is a record with one field, which names its type:
\*   null        [null |-> TRUE]
\*   a boolean   [bool |-> b]
\*   a number    [num |-> d], d the IEEE 754 double of the number (Double)
\*   a string    [str |-> s], s the sequence of its characters
\*   an array    [arr |-> <<v1, ..., vn>>]
\*   an object   [obj |-> f], f the function from the key of every own
\*               property (propertyKey of its name) to its value
null == [null |-> TRUE]

User(id, email, name) ==
  [obj |-> [id |-> [str |-> id], email |-> [str |-> email],
            name |-> [str |-> name]]]

\* --------------------------------------------------------------- characters
\* A text is the sequence of its UTF-16 code units.  A printable ASCII
\* character is the string of that character; every other code unit is the
\* token \uXXXX of its four lower-case hexadecimal digits, but for the tab,
\* the line feed, the form feed and the carriage return.
Q == "\""
Backslash == "\\"

HexDigit(d) ==
  <<"0", "1", "2", "3", "4", "5", "6", "7", "8", "9",
    "a", "b", "c", "d", "e", "f">>[d + 1]

\* the printable characters, code units 32 to 126 (the grave accent, which a
\* string of this module cannot hold, as its token)
Ascii ==
  <<" ", "!", "\"", "#", "$", "%", "&", "'", "(", ")", "*", "+", ",", "-",
    ".", "/", "0", "1", "2", "3", "4", "5", "6", "7", "8", "9", ":", ";",
    "<", "=", ">", "?", "@", "A", "B", "C", "D", "E", "F", "G", "H", "I",
    "J", "K", "L", "M", "N", "O", "P", "Q", "R", "S", "T", "U", "V", "W",
    "X", "Y", "Z", "[", "\\", "]", "^", "_", "\\u0060", "a", "b", "c", "d", "e",
    "f", "g", "h", "i", "j", "k", "l", "m", "n", "o", "p", "q", "r", "s",
    "t", "u", "v", "w", "x", "y", "z", "{", "|", "}", "~">>

\* String.fromCharCode: the character of a code unit
fromCharCode(n) ==
  IF n = 9 THEN "\t"
  ELSE IF n = 10 THEN "\n"
  ELSE IF n = 12 THEN "\f"
  ELSE IF n = 13 THEN "\r"
  ELSE IF n \in 32..126 THEN Ascii[n - 31]
  ELSE "\\u" \o HexDigit(n \div 4096) \o HexDigit((n \div 256) % 16)
         \o HexDigit((n \div 16) % 16) \o HexDigit(n % 16)

ControlChars == {fromCharCode(n) : n \in 0..31}
Backspace == fromCharCode(8)

\* the code units U+D800 to U+DBFF and U+DC00 to U+DFFF
HighSurrogates == {fromCharCode(n) : n \in 55296..56319}
LowSurrogates == {fromCharCode(n) : n \in 56320..57343}

\* --------------------------------------------------------------------- JSON
\* the characters JSON.stringify may write with an escape
EscapedChars ==
  {Q, Backslash} \cup ControlChars \cup HighSurrogates \cup LowSurrogates

\* the characters JSON.stringify writes for the character c of a string, a
\* surrogate being one that is not part of a pair
quoteChar(c) ==
  IF c \notin EscapedChars THEN <<c>>
  ELSE IF c = Q THEN <<Backslash, Q>>
  ELSE IF c = Backslash THEN <<Backslash, Backslash>>
  ELSE IF c = "\t" THEN <<Backslash, "t">>
  ELSE IF c = "\n" THEN <<Backslash, "n">>
  ELSE IF c = "\f" THEN <<Backslash, "f">>
  ELSE IF c = "\r" THEN <<Backslash, "r">>
  ELSE IF c = Backspace THEN <<Backslash, "b">>
  ELSE LET n == CHOOSE k \in (0..31) \cup (55296..57343) :
                  fromCharCode(k) = c
       IN  <<Backslash, "u", HexDigit(n \div 4096),
             HexDigit((n \div 256) % 16), HexDigit((n \div 16) % 16),
             HexDigit(n % 16)>>

\* the quoted text of the string s: a high surrogate followed by a low one is
\* a pair, written as it is
RECURSIVE quoteChars(_)
quoteChars(s) ==
  IF s = <<>> THEN <<>>
  ELSE IF Len(s) >= 2 /\ s[1] \in HighSurrogates /\ s[2] \in LowSurrogates
    THEN <<s[1], s[2]>> \o quoteChars(SubSeq(s, 3, Len(s)))
  ELSE quoteChar(Head(s)) \o quoteChars(Tail(s))
quote(s) == <<Q>> \o quoteChars(s) \o <<Q>>

\* JSON.stringify of a User: {"id":"...","email":"...","name":"..."}
JSONstringify(u) ==
  <<"{">> \o quote(<<"i", "d">>) \o <<":">> \o quote(u.obj.id.str)
    \o <<",">> \o quote(<<"e", "m", "a", "i", "l">>) \o <<":">>
    \o quote(u.obj.email.str)
    \o <<",">> \o quote(<<"n", "a", "m", "e">>) \o <<":">>
    \o quote(u.obj.name.str)
    \o <<"}">>

\* the outcome of a parsing step: a failure, or the value read and the
\* position after it
JFail == [ok |-> FALSE]
JOk(v, n) == [ok |-> TRUE, value |-> v, next |-> n]

Whitespace == {" ", "\t", "\n", "\r"}
DigitChars == {Digit(n) : n \in 0..9}
DigitVal(c) == CHOOSE n \in 0..9 : Digit(n) = c
HexChars ==
  DigitChars \cup {"a", "b", "c", "d", "e", "f", "A", "B", "C", "D", "E", "F"}
HexVal(c) ==
  IF c \in DigitChars THEN DigitVal(c)
  ELSE IF c \in {"a", "A"} THEN 10
  ELSE IF c \in {"b", "B"} THEN 11
  ELSE IF c \in {"c", "C"} THEN 12
  ELSE IF c \in {"d", "D"} THEN 13
  ELSE IF c \in {"e", "E"} THEN 14
  ELSE 15

\* the position of the first character of s at or after i that is no white
\* space
RECURSIVE skipWs(_, _)
skipWs(s, i) ==
  IF i <= Len(s) /\ s[i] \in Whitespace THEN skipWs(s, i + 1) ELSE i

\* the text lit stands at position i of s
matches(s, i, lit) ==
  i + Len(lit) - 1 <= Len(s) /\ SubSeq(s, i, i + Len(lit) - 1) = lit

\* the key of the property named by the characters cs: their concatenation,
\* with the backslash doubled so that a name of several characters and a
\* token have different keys
RECURSIVE propertyKey(_)
propertyKey(cs) ==
  IF cs = <<>> THEN ""
  ELSE (IF Head(cs) = Backslash THEN "\\\\" ELSE Head(cs))
         \o propertyKey(Tail(cs))

\* the characters of a string up to its closing quote, from position i
RECURSIVE parseChars(_, _, _)
parseChars(s, i, acc) ==
  IF i > Len(s) THEN JFail
  ELSE IF s[i] = Q THEN JOk(acc, i + 1)
  ELSE IF s[i] \in ControlChars THEN JFail
  ELSE IF s[i] # Backslash THEN parseChars(s, i + 1, Append(acc, s[i]))
  ELSE IF i + 1 > Len(s) THEN JFail
  ELSE IF s[i + 1] \in {Q, Backslash, "/"}
    THEN parseChars(s, i + 2, Append(acc, s[i + 1]))
  ELSE IF s[i + 1] = "b" THEN parseChars(s, i + 2, Append(acc, Backspace))
  ELSE IF s[i + 1] = "f" THEN parseChars(s, i + 2, Append(acc, "\f"))
  ELSE IF s[i + 1] = "n" THEN parseChars(s, i + 2, Append(acc, "\n"))
  ELSE IF s[i + 1] = "r" THEN parseChars(s, i + 2, Append(acc, "\r"))
  ELSE IF s[i + 1] = "t" THEN parseChars(s, i + 2, Append(acc, "\t"))
  ELSE IF /\ s[i + 1] = "u" /\ i + 5 <= Len(s)
          /\ \A k \in 2..5 : s[i + k] \in HexChars
    THEN parseChars(s, i + 6,
           Append(acc, fromCharCode(HexVal(s[i + 2]) * 4096
                                      + HexVal(s[i + 3]) * 256
                                      + HexVal(s[i + 4]) * 16
                                      + HexVal(s[i + 5]))))
  ELSE JFail

\* a string at position i of s, which holds its opening quote
parseString(s, i) ==
  CHOOSE r \in
    {IF c.ok THEN JOk([str |-> c.value], c.next) ELSE JFail
       : c \in {parseChars(s, i + 1, <<>>)}} : TRUE

\* ------------------------------------------------------------------ numbers
\* A natural number of any size is the sequence of its digits in base Base,
\* the least significant first and the last one not 0; 0 is <<>>.  The
\* operators work on all digits at once, so that their depth does not grow
\* with the size of the number.
BaseBits == 10
Base == 1024

RECURSIVE pow2(_)
pow2(k) == IF k = 0 THEN 1 ELSE 2 * pow2(k - 1)

\* the number of binary digits of n
RECURSIVE bitLength(_)
bitLength(n) == IF n = 0 THEN 0 ELSE 1 + bitLength(n \div 2)

Zeros(n) == SubSeq([i \in 1..n |-> 0], 1, n)

\* v without the zeros at its end
bigNorm(v) ==
  IF \A i \in 1..Len(v) : v[i] = 0 THEN <<>>
  ELSE SubSeq(v, 1, CHOOSE i \in 1..Len(v) :
                      v[i] # 0 /\ \A j \in (i + 1)..Len(v) : v[j] = 0)

\* every element of v passes to the next one what it holds above Base
carryOnce(v) ==
  SubSeq([i \in 1..(Len(v) + 1) |->
            (IF i <= Len(v) THEN v[i] % Base ELSE 0)
              + (IF i > 1 THEN v[i - 1] \div Base ELSE 0)],
         1, Len(v) + 1)

\* element i of v receives a carry, the elements of v being below 2 * Base - 1
carryInto(v, i) ==
  \E j \in 1..(i - 1) :
    v[j] >= Base /\ \A k \in (j + 1)..(i - 1) : v[k] >= Base - 1

\* the number with the elements of v, all below 2^31, for digits: after three
\* steps of carrying the elements are below Base + 2
bigCarry(v) ==
  CHOOSE r \in
    {bigNorm([i \in 1..Len(w) |->
                (w[i] + (IF carryInto(w, i) THEN 1 ELSE 0)) % Base])
       : w \in {carryOnce(carryOnce(carryOnce(v)))}} : TRUE

\* a + b
bigPlus(a, b) ==
  bigCarry([i \in 1..(IF Len(a) > Len(b) THEN Len(a) ELSE Len(b)) |->
              (IF i <= Len(a) THEN a[i] ELSE 0)
                + (IF i <= Len(b) THEN b[i] ELSE 0)])

\* a * c, for c below 2^20
bigTimes(a, c) == bigCarry([i \in 1..Len(a) |-> a[i] * c])

\* the sum of a[j] * b[i - j + 1] for j from lo to hi
RECURSIVE productSum(_, _, _, _, _)
productSum(a, b, i, lo, hi) ==
  IF lo > hi THEN 0
  ELSE IF lo = hi THEN a[lo] * b[i - lo + 1]
  ELSE productSum(a, b, i, lo, (lo + hi) \div 2)
         + productSum(a, b, i, (lo + hi) \div 2 + 1, hi)

\* a * b, for numbers of fewer than 2000 digits
bigTimesBig(a, b) ==
  IF a = <<>> \/ b = <<>> THEN <<>>
  ELSE bigCarry([i \in 1..(Len(a) + Len(b) - 1) |->
                   productSum(a, b, i,
                              IF i > Len(b) THEN i - Len(b) + 1 ELSE 1,
                              IF i < Len(a) THEN i ELSE Len(a))])

bigLess(a, b) ==
  IF Len(a) # Len(b) THEN Len(a) < Len(b)
  ELSE \E k \in 1..Len(a) :
         a[k] < b[k] /\ \A j \in (k + 1)..Len(a) : a[j] = b[j]

\* digit i of a - b borrows from the next one
borrowInto(a, b, i) ==
  \E j \in 1..(i - 1) :
    /\ a[j] < (IF j <= Len(b) THEN b[j] ELSE 0)
    /\ \A k \in (j + 1)..(i - 1) : a[k] <= (IF k <= Len(b) THEN b[k] ELSE 0)

\* a - b, for a >= b
bigMinus(a, b) ==
  bigNorm([i \in 1..Len(a) |->
             (a[i] - (IF i <= Len(b) THEN b[i] ELSE 0)
                - (IF borrowInto(a, b, i) THEN 1 ELSE 0) + Base) % Base])

\* a * 2^k
bigShl(a, k) ==
  IF a = <<>> THEN <<>>
  ELSE Zeros(k \div BaseBits) \o bigTimes(a, pow2(k % BaseBits))

bigBitLength(a) ==
  IF a = <<>> THEN 0
  ELSE BaseBits * (Len(a) - 1) + bitLength(a[Len(a)])

\* 10^n
RECURSIVE bigPow10(_)
bigPow10(n) ==
  IF n = 0 THEN <<1>>
  ELSE CHOOSE r \in
    {IF n % 2 = 0 THEN bigTimesBig(h, h)
     ELSE bigTimes(bigTimesBig(h, h), 10)
       : h \in {bigPow10(n \div 2)}} : TRUE

\* the number written by the decimal digits lo to hi of ds
RECURSIVE bigOfDigits(_, _, _)
bigOfDigits(ds, lo, hi) ==
  IF lo > hi THEN <<>>
  ELSE IF lo = hi THEN bigNorm(<<ds[lo]>>)
  ELSE CHOOSE r \in
    {bigPlus(bigTimesBig(front, bigPow10(hi - (lo + hi) \div 2)), back)
       : front \in {bigOfDigits(ds, lo, (lo + hi) \div 2)},
         back \in {bigOfDigits(ds, (lo + hi) \div 2 + 1, hi)}} : TRUE

\* the IEEE 754 double with the sign bit sign, the exponent field exponent
\* (0 to 2047) and the 52 bits of the fraction field, the most significant
\* first: (-1)^sign * 1.fraction * 2^(exponent - 1023) for a normal number,
\* (-1)^sign * 0.fraction * 2^-1022 for the exponent field 0, an infinity for
\* the exponent field 2047 and the fraction 0
Double(sign, exponent, fraction) ==
  [sign |-> sign, exponent |-> exponent, fraction |-> fraction]

\* the n bits of k, the most significant first, and the number of the bits bs
bitsOf(k, n) == SubSeq([i \in 1..n |-> (k \div pow2(n - i)) % 2], 1, n)
RECURSIVE bitsValue(_, _, _)
bitsValue(bs, i, n) ==
  IF i > Len(bs) THEN n ELSE bitsValue(bs, i + 1, 2 * n + bs[i])

\* the bits bs of a number, plus one
increment(bs) ==
  LET k == CHOOSE i \in 1..Len(bs) :
             bs[i] = 0 /\ \A j \in (i + 1)..Len(bs) : bs[j] = 1
  IN  SubSeq([i \in 1..Len(bs) |->
                IF i < k THEN bs[i] ELSE IF i = k THEN 1 ELSE 0],
             1, Len(bs))

\* the first count binary digits of x / y, for x < 2 * y, the first one of
\* weight 1, and whether they are all of it
RECURSIVE quotientBits(_, _, _, _)
quotientBits(x, y, count, acc) ==
  IF count = 0 THEN [bits |-> acc, exact |-> x = <<>>]
  ELSE CHOOSE r \in
    {quotientBits(n.x, y, count - 1, n.acc)
       : n \in {IF bigLess(x, y)
                  THEN [x |-> bigTimes(x, 2), acc |-> Append(acc, 0)]
                  ELSE [x |-> bigTimes(bigMinus(x, y), 2),
                        acc |-> Append(acc, 1)]}} : TRUE

\* the double nearest to (x / y) * 2^e, for y <= x < 2 * y, ties to the even
\* fraction: 53 binary digits are kept for a normal number, fewer for a
\* subnormal one, and the exponent field and the fraction field are rounded
\* up together, to the infinity after the largest number
roundToDouble(sign, x, y, e) ==
  IF e > 1023 THEN Double(sign, 2047, Zeros(52))
  ELSE IF e < -1075 THEN Double(sign, 0, Zeros(52))
  ELSE CHOOSE r \in
    {LET p == IF e >= -1022 THEN 53 ELSE e + 1075
         fields == IF e >= -1022
                     THEN bitsOf(e + 1023, 11) \o SubSeq(q.bits, 2, 53)
                     ELSE Zeros(11 + 52 - p) \o SubSeq(q.bits, 1, p)
         up == q.bits[p + 1] = 1 /\ (~q.exact \/ fields[63] = 1)
         rounded == IF up THEN increment(fields) ELSE fields
     IN  Double(sign, bitsValue(SubSeq(rounded, 1, 11), 1, 0),
                SubSeq(rounded, 12, 63))
       : q \in {quotientBits(x, y,
                             (IF e >= -1022 THEN 53 ELSE e + 1075) + 1,
                             <<>>)}} : TRUE

\* the double nearest to a / b, for a > 0 and b > 0
ratioToDouble(sign, a, b) ==
  CHOOSE r \in
    {IF e >= 0 THEN roundToDouble(sign, a, bigShl(b, e), e)
     ELSE roundToDouble(sign, bigShl(a, 0 - e), b, e)
       : e \in {IF bigBitLength(a) >= bigBitLength(b)
                  THEN (IF bigLess(a, bigShl(b, bigBitLength(a)
                                                  - bigBitLength(b)))
                          THEN bigBitLength(a) - bigBitLength(b) - 1
                          ELSE bigBitLength(a) - bigBitLength(b))
                ELSE (IF bigLess(bigShl(a, bigBitLength(b)
                                             - bigBitLength(a)), b)
                        THEN bigBitLength(a) - bigBitLength(b) - 1
                        ELSE bigBitLength(a) - bigBitLength(b))}} : TRUE

\* the double nearest to ds * 10^e10, for the decimal digits ds without
\* zeros in front and at the end.  A number of 10^309 or more is Infinity and
\* one below 10^-324 is 0.  The doubles and the midpoints between two doubles
\* have fewer than 800 significant decimal digits, so none of them lies
\* between two numbers that agree on their first 800 digits: the digits after
\* these are replaced by one digit 1 without changing the nearest double.
RECURSIVE numberValue(_, _, _)
numberValue(sign, ds, e10) ==
  IF ds = <<>> THEN Double(sign, 0, Zeros(52))
  ELSE IF Len(ds) + e10 > 309 THEN Double(sign, 2047, Zeros(52))
  ELSE IF Len(ds) + e10 < -324 THEN Double(sign, 0, Zeros(52))
  ELSE IF Len(ds) > 801
    THEN numberValue(sign, Append(SubSeq(ds, 1, 800), 1),
                     e10 + Len(ds) - 801)
  ELSE CHOOSE r \in
    {ratioToDouble(sign, a, b)
       : a \in {IF e10 >= 0
                  THEN bigTimesBig(bigOfDigits(ds, 1, Len(ds)), bigPow10(e10))
                  ELSE bigOfDigits(ds, 1, Len(ds))},
         b \in {IF e10 >= 0 THEN <<1>> ELSE bigPow10(0 - e10)}} : TRUE

\* the position after the digits that start at position i of s
digitsEnd(s, i) ==
  IF \A j \in i..Len(s) : s[j] \in DigitChars THEN Len(s) + 1
  ELSE CHOOSE j \in i..Len(s) :
         s[j] \notin DigitChars /\ \A k \in i..(j - 1) : s[k] \in DigitChars

\* the smaller of limit and the number written by the digits of s from
\* position a to before b, for limit < 10^9: the zeros in front are passed
\* over, a number of ten digits or more is above limit, and one of at most
\* nine digits is the sum of its digits times their powers of ten
natOf(s, a, b, limit) ==
  LET nonzero == {k \in a..(b - 1) : s[k] # "0"}
      first == CHOOSE k \in nonzero : \A j \in nonzero : k <= j
      n == productSum([j \in 1..(b - first) |-> DigitVal(s[first + j - 1])],
                      [k \in 1..(b - first) |-> 10 ^ (k - 1)],
                      b - first, 1, b - first)
  IN  IF nonzero = {} THEN 0
      ELSE IF b - first > 9 THEN limit
      ELSE IF n > limit THEN limit ELSE n

\* a number at position i of s: -? int frac? exp?  The digits and the
\* exponent give the number; an exponent above Len(s) + 400 gives the same
\* number as Len(s) + 400, Infinity, 0 or -0, the digits being fewer than
\* Len(s)
parseNumber(s, i) ==
  LET negative == s[i] = "-"
      a == IF negative THEN i + 1 ELSE i
      b == digitsEnd(s, a)
      hasFrac == b <= Len(s) /\ s[b] = "."
      c == IF hasFrac THEN digitsEnd(s, b + 1) ELSE b
      hasExp == c <= Len(s) /\ s[c] \in {"e", "E"}
      signed == hasExp /\ c + 1 <= Len(s) /\ s[c + 1] \in {"+", "-"}
      d0 == IF signed THEN c + 2 ELSE c + 1
      d == IF hasExp THEN digitsEnd(s, d0) ELSE c
      fracLen == IF hasFrac THEN c - b - 1 ELSE 0
      expAbs == IF hasExp THEN natOf(s, d0, d, Len(s) + 400) ELSE 0
      exponent == IF signed /\ s[c + 1] = "-" THEN 0 - expAbs ELSE expAbs
      digits == [k \in 1..(b - a + fracLen) |->
                   DigitVal(IF k <= b - a THEN s[a + k - 1]
                            ELSE s[b + k - (b - a)])]
      nonzero == {k \in 1..Len(digits) : digits[k] # 0}
      first == CHOOSE k \in nonzero : \A j \in nonzero : k <= j
      last == CHOOSE k \in nonzero : \A j \in nonzero : j <= k
  IN  IF /\ b > a
         /\ s[a] # "0" \/ b = a + 1
         /\ hasFrac => c > b + 1
         /\ hasExp => d > d0
        THEN JOk([num |->
                    IF nonzero = {}
                      THEN numberValue(IF negative THEN 1 ELSE 0, <<>>, 0)
                      ELSE numberValue(IF negative THEN 1 ELSE 0,
                                       SubSeq(digits, first, last),
                                       exponent - fracLen
                                         + (Len(digits) - last))], d)
        ELSE JFail

\* a value at position i of s, the elements of an array and the members of an
\* object
RECURSIVE parseValue(_, _)
RECURSIVE parseElements(_, _, _)
RECURSIVE parseMembers(_, _, _, _)
RECURSIVE parseMemberValue(_, _, _, _)
parseValue(s, i) ==
  IF i > Len(s) THEN JFail
  ELSE IF s[i] = "{"
    THEN LET j == skipWs(s, i + 1)
         IN  IF j <= Len(s) /\ s[j] = "}" THEN JOk([obj |-> <<>>], j + 1)
             ELSE parseMembers(s, j, <<>>, TRUE)
  ELSE IF s[i] = "["
    THEN LET j == skipWs(s, i + 1)
         IN  IF j <= Len(s) /\ s[j] = "]" THEN JOk([arr |-> <<>>], j + 1)
             ELSE parseElements(s, j, <<>>)
  ELSE IF s[i] = Q THEN parseString(s, i)
  ELSE IF matches(s, i, <<"n", "u", "l", "l">>) THEN JOk(null, i + 4)
  ELSE IF matches(s, i, <<"t", "r", "u", "e">>)
    THEN JOk([bool |-> TRUE], i + 4)
  ELSE IF matches(s, i, <<"f", "a", "l", "s", "e">>)
    THEN JOk([bool |-> FALSE], i + 5)
  ELSE IF s[i] = "-" \/ s[i] \in DigitChars THEN parseNumber(s, i)
  ELSE JFail

parseElements(s, i, acc) ==
  CHOOSE r \in
    {IF ~v.ok THEN JFail
     ELSE LET j == skipWs(s, v.next)
          IN  IF j > Len(s) THEN JFail
              ELSE IF s[j] = ","
                THEN parseElements(s, skipWs(s, j + 1), Append(acc, v.value))
              ELSE IF s[j] = "]"
                THEN JOk([arr |-> Append(acc, v.value)], j + 1)
              ELSE JFail
       : v \in {parseValue(s, i)}} : TRUE

\* the value of a member that follows its key k; a repeated key keeps the
\* value of its last member
parseMemberValue(s, k, acc, first) ==
  CHOOSE r \in
    {IF ~v.ok THEN JFail
     ELSE LET m == skipWs(s, v.next)
              acc2 == IF first THEN propertyKey(k.value) :> v.value
                      ELSE (propertyKey(k.value) :> v.value) @@ acc
          IN  IF m > Len(s) THEN JFail
              ELSE IF s[m] = ","
                THEN parseMembers(s, skipWs(s, m + 1), acc2, FALSE)
              ELSE IF s[m] = "}" THEN JOk([obj |-> acc2], m + 1)
              ELSE JFail
       : v \in {parseValue(s, skipWs(s, skipWs(s, k.next) + 1))}} : TRUE

parseMembers(s, i, acc, first) ==
  IF i > Len(s) \/ s[i] # Q THEN JFail
  ELSE CHOOSE r \in
    {IF ~k.ok THEN JFail
     ELSE IF skipWs(s, k.next) > Len(s) \/ s[skipWs(s, k.next)] # ":"
       THEN JFail
     ELSE parseMemberValue(s, k, acc, first)
       : k \in {parseChars(s, i + 1, <<>>)}} : TRUE

\* JSON.parse: [ok |-> FALSE] is a SyntaxError
JSONparse(s) ==
  CHOOSE r \in
    {IF v.ok /\ skipWs(s, v.next) = Len(s) + 1
       THEN [ok |-> TRUE, value |-> v.value]
       ELSE [ok |-> FALSE]
       : v \in {parseValue(s, skipWs(s, 1))}} : TRUE

\* ToBoolean of a JavaScript value: null, false, the empty string, the zeros
\* and NaN are falsy
truthy(v) ==
  /\ v # null /\ v # [bool |-> FALSE] /\ v # [str |-> <<>>]
  /\ "num" \in DOMAIN v =>
       /\ v.num.exponent # 0 \/ v.num.fraction # Zeros(52)
       /\ v.num.exponent # 2047 \/ v.num.fraction = Zeros(52)

\* ------------------------------------------------------ key-value store
Absent == [absent |-> TRUE]
Stored(s) == [value |-> s]

\* outcome of AsyncStorage.getItem: the entry, or a rejected promise
IOError == [rejected |-> TRUE]

\* --------------------------------------------------------- storage.ts
\* loadUserFromStorage taking every stored text for an absent key
loadUserFromStorage_dropsRecord(r) ==
  IF r = IOError \/ r = Absent THEN null
  ELSE IF r.value = <<>> THEN null
  ELSE null

\* loadUserFromStorage, from the outcome r of getItem(AUTH_USER_KEY): a
\* rejected read and a SyntaxError of JSON.parse are caught and give null, an
\* absent key and the empty string are falsy and give null.
loadUserFromStorage(r) ==
  IF r = IOError \/ r = Absent THEN null
  ELSE IF r.value = <<>> THEN null
  ELSE IF JSONparse(r.value).ok THEN JSONparse(r.value).value
  ELSE null

\* the entry under AUTH_USER_KEY after saveUserToStorage's setItem settled
setItemOutcome(entry, userData, ok) == IF ok THEN Stored(userData) ELSE entry

\* a removal that overwrites the entry with the text of null
removeItemOutcome_storesNull(entry, ok) ==
  IF ok THEN Stored(<<"n", "u", "l", "l">>) ELSE entry

\* the entry under AUTH_USER_KEY after removeUserFromStorage's removeItem
removeItemOutcome(entry, ok) == IF ok THEN Absent ELSE entry

\* -------------------------------------------------------- AuthContext
InitialAuthState ==
  [user |-> null, isLoading |-> FALSE, isAuthenticated |-> FALSE,
   isInitializing |-> TRUE]

\* initializeAuth without the update of its else branch
initializeAuth_noElseUpdate(prev, persistedUser) ==
  IF truthy(persistedUser)
    THEN [user |-> persistedUser, isLoading |-> FALSE,
          isAuthenticated |-> TRUE, isInitializing |-> FALSE]
    ELSE prev

\* the state initializeAuth sets once loadUserFromStorage has resolved:
\* if (persistedUser) takes every truthy value for a user
initializeAuth(prev, persistedUser) ==
  IF truthy(persistedUser)
    THEN [user |-> persistedUser, isLoading |-> FALSE,
          isAuthenticated |-> TRUE, isInitializing |-> FALSE]
    ELSE [prev EXCEPT !.isInitializing = FALSE]

\* the catch block putting back the initial state
setIsLoading_resetsState(prev, b) ==
  IF b THEN [prev EXCEPT !.isLoading = TRUE] ELSE InitialAuthState

\* the isLoading updater also clearing isInitializing
setIsLoading_clearsInitializing(prev, b) ==
  [prev EXCEPT !.isLoading = b, !.isInitializing = FALSE]

\* the catch block leaving isLoading as it is
setIsLoading_neverResets(prev, b) ==
  IF b THEN [prev EXCEPT !.isLoading = TRUE] ELSE prev

\* setAuthState(prev => ({ ...prev, isLoading: b }))
setIsLoading(prev, b) == [prev EXCEPT !.isLoading = b]

\* the state login and signup set after the simulated network delay
authenticatedState(mockUser) ==
  [user |-> mockUser, isLoading |-> FALSE, isAuthenticated |-> TRUE,
   isInitializing |-> FALSE]

\* logout leaving the authenticated flag set
loggedOutState_stillAuthenticated ==
  [user |-> null, isLoading |-> FALSE, isAuthenticated |-> TRUE,
   isInitializing |-> FALSE]

\* logout putting back the state of construction
loggedOutState_initializing ==
  [user |-> null, isLoading |-> FALSE, isAuthenticated |-> FALSE,
   isInitializing |-> TRUE]

\* the state logout sets after clearAuthStorage
loggedOutState ==
  [user |-> null, isLoading |-> FALSE, isAuthenticated |-> FALSE,
   isInitializing |-> FALSE]

NoError == "no error"

\* login's validation testing the email only for emptiness
loginValidation_emailOnly(credentials) ==
  IF credentials.email = <<>>
    THEN "Email and password are required"
  ELSE IF ~includes(credentials.email, "@")
    THEN "Please enter a valid email"
  ELSE NoError

\* login's validation testing the password only for emptiness
loginValidation_passwordOnly(credentials) ==
  IF credentials.password = <<>>
    THEN "Email and password are required"
  ELSE IF credentials.email # <<>> /\ ~includes(credentials.email, "@")
    THEN "Please enter a valid email"
  ELSE NoError

\* the message of the Error login's validation throws, NoError without one
loginValidation(credentials) ==
  IF credentials.email = <<>> \/ credentials.password = <<>>
    THEN "Email and password are required"
  ELSE IF ~includes(credentials.email, "@")
    THEN "Please enter a valid email"
  ELSE NoError

\* signup's validation with the length check off by one
signupValidation_offByOne(credentials) ==
  IF \/ credentials.email = <<>> \/ credentials.password = <<>>
     \/ credentials.name = <<>>
    THEN "All fields are required"
  ELSE IF ~includes(credentials.email, "@")
    THEN "Please enter a valid email"
  ELSE IF Len(credentials.password) < MinPasswordLength - 1
    THEN "Password must be at least 6 characters"
  ELSE NoError

\* the message of the Error signup's validation throws, NoError without one
signupValidation(credentials) ==
  IF \/ credentials.email = <<>> \/ credentials.password = <<>>
     \/ credentials.name = <<>>
    THEN "All fields are required"
  ELSE IF ~includes(credentials.email, "@")
    THEN "Please enter a valid email"
  ELSE IF Len(credentials.password) < MinPasswordLength
    THEN "Password must be at least 6 characters"
  ELSE NoError

\* mockUser of login with the whole email as name
loginMockUser_nameIsEmail(credentials, t) ==
  User(toString(t), credentials.email, credentials.email)

\* mockUser of login, created at clock reading t
loginMockUser(credentials, t) ==
  User(toString(t), credentials.email, splitFirst(credentials.email, "@"))

\* mockUser of signup, created at clock reading t
signupMockUser(credentials, t) ==
  User(toString(t), credentials.email, credentials.name)

LoginCredentials == [email : Emails, password : Passwords]
SignupCredentials == [email : Emails, password : Passwords, name : Names]

\* the credentials of the overlapping calls: one accepted and one rejected
\* input of each operation
LoginInputs ==
  {[email |-> <<"a", "@">>, password |-> <<"p">>],
   [email |-> <<>>, password |-> <<"p">>]}
SignupInputs ==
  {[email |-> <<"a", "@">>, password |-> [i \in 1..MinPasswordLength |-> "p"],
    name |-> <<"n">>],
   [email |-> <<"a", "@">>, password |-> <<"p">>, name |-> <<"n">>]}

\* -------------------------------------------------------- ThemeContext
light == <<"l", "i", "g", "h", "t">>
dark == <<"d", "a", "r", "k">>

\* loadTheme adopting every non-empty stored value
loadTheme_adoptsAny(prev, r) ==
  IF r # IOError /\ r # Absent /\ r.value # <<>>
    THEN r.value
    ELSE prev

\* the theme loadTheme leaves, from the outcome r of getItem
loadTheme(prev, r) ==
  IF r # IOError /\ r # Absent /\ r.value # <<>>
       /\ (r.value = light \/ r.value = dark)
    THEN r.value
    ELSE prev

\* newTheme of toggleTheme
newTheme(theme) == IF theme = light THEN dark ELSE light

\* ------------------------------------------------------------------ state
\* AsyncStorage: key -> Absent or Stored(text)
VARIABLE kv
\* ThemeProvider: [theme, isLoading]
VARIABLE themeState
\* loadTheme: [pc, savedTheme]
VARIABLE themeInit
\* saveTheme calls whose setItem is pending: the values
VARIABLE themeSaves
\* number of toggleTheme calls made
VARIABLE toggles
\* initializeAuth: [pc, userData, persistedUser]
VARIABLE authInit
\* AuthProvider: the AuthState
VARIABLE authState
\* the login, signup and logout calls made, in call order
VARIABLE calls
\* Date.now()
VARIABLE now
\* the calls that returned in the earlier runs of the process, in call order
VARIABLE history
\* HomeScreen: the number of alerts handleLogout has opened that are showing
VARIABLE alerts
\* ThemeProvider: the theme of its last render, which is the one that the
\* toggleTheme of that render reads
VARIABLE renderedTheme
\* AuthProvider: the AuthState of its last render, which is the one that
\* AppNavigation and the screens show
VARIABLE renderedAuthState

vars == <<kv, themeState, themeInit, themeSaves, toggles, authInit,
          authState, calls, now, history, alerts, renderedTheme,
          renderedAuthState>>

\* texts found under the user key at process start: nothing, the record a
\* previous run saved, a truncated record, and JSON texts that are no user
\* record, the falsy 0 and the truthy {}
InitialUserEntries ==
  {Absent, Stored(<<"{", Q, "i", "d">>), Stored(<<"0">>),
   Stored(<<"{", "}">>),
   Stored(JSONstringify(User(<<"0">>, <<"a", "@">>, <<"a">>)))}

InitialThemeEntries == {Absent, Stored(light), Stored(dark), Stored(<<"x">>)}

Init ==
  /\ kv \in {[k \in {AUTH_USER_KEY, THEME_STORAGE_KEY} |->
                IF k = AUTH_USER_KEY THEN u ELSE t] :
               u \in InitialUserEntries, t \in InitialThemeEntries}
  /\ themeState = [theme |-> light, isLoading |-> TRUE]
  /\ themeInit = [pc |-> "reading", savedTheme |-> Absent]
  /\ themeSaves = <<>>
  /\ toggles = 0
  /\ authInit = [pc |-> "unmounted", userData |-> Absent,
                 persistedUser |-> null]
  /\ authState = InitialAuthState
  /\ calls = <<>>
  /\ now = 1
  /\ history = <<>>
  /\ alerts = 0
  /\ renderedTheme = light
  /\ renderedAuthState = InitialAuthState

\* a call is between its first statement and its first await
Running == \E i \in 1..Len(calls) : calls[i].pc = "validating"

\* outcomes a getItem of key k can settle with
GetItemOutcomes(k) == {kv[k], IOError}

\* ------------------------------------------------------ Preference Store
\* loadTheme resumes after getItem(THEME_STORAGE_KEY)
LoadThemeComplete ==
  /\ ~Running
  /\ themeInit.pc = "reading"
  /\ \E r \in GetItemOutcomes(THEME_STORAGE_KEY) :
       /\ themeState' = [theme |-> loadTheme(themeState.theme, r),
                         isLoading |-> FALSE]
       /\ themeInit' = [pc |-> "done", savedTheme |-> r]
  /\ UNCHANGED <<renderedAuthState, renderedTheme, alerts, history, kv, themeSaves, toggles, authInit, authState, calls, now>>

\* ThemeProvider renders again after a setTheme, with the provider that
\* AppWithTheme renders on the loaded theme in place: the toggleTheme of this
\* render reads the theme of this render
ThemeProviderRender ==
  /\ ~Running
  /\ renderedTheme # themeState.theme
  /\ themeState.isLoading \/ authInit.pc # "unmounted"
  /\ renderedTheme' = themeState.theme
  /\ UNCHANGED <<renderedAuthState, alerts, history, kv, themeState,
                 themeInit, themeSaves, toggles, authInit, authState, calls,
                 now>>

\* toggleTheme: newTheme from the theme of the render that made the
\* function, setTheme(newTheme), then saveTheme(newTheme) issues setItem
ToggleTheme ==
  /\ ~Running
  /\ toggles < MaxToggles
  /\ toggles' = toggles + 1
  /\ themeState' = [themeState EXCEPT !.theme = newTheme(renderedTheme)]
  /\ themeSaves' = Append(themeSaves, newTheme(renderedTheme))
  /\ UNCHANGED <<renderedAuthState, renderedTheme, alerts, history, kv, themeInit, authInit, authState, calls, now>>

\* toggleTheme is called twice in one turn, before ThemeProvider renders
\* again: both calls read the theme of the same render, so both compute the
\* same newTheme, set it and issue a setItem of it
ToggleThemeTwice ==
  /\ ~Running
  /\ toggles + 2 <= MaxToggles
  /\ toggles' = toggles + 2
  /\ themeState' = [themeState EXCEPT !.theme = newTheme(renderedTheme)]
  /\ themeSaves' = themeSaves \o <<newTheme(renderedTheme),
                                   newTheme(renderedTheme)>>
  /\ UNCHANGED <<renderedAuthState, renderedTheme, alerts, history, kv, themeInit, authInit, authState, calls, now>>

\* a setItem(THEME_STORAGE_KEY, ...) of saveTheme settles
SaveThemeComplete ==
  /\ ~Running
  /\ \E k \in 1..Len(themeSaves), ok \in BOOLEAN :
       /\ kv' = [kv EXCEPT ![THEME_STORAGE_KEY] =
                   IF ok THEN Stored(themeSaves[k]) ELSE @]
       /\ themeSaves' = SubSeq(themeSaves, 1, k - 1)
                          \o SubSeq(themeSaves, k + 1, Len(themeSaves))
  /\ UNCHANGED <<renderedAuthState, renderedTheme, alerts, history, themeState, themeInit, toggles, authInit, authState, calls,
                 now>>

\* --------------------------------------------------------- Session Store
\* ThemeProvider renders with the loaded theme and AppWithTheme renders
\* AuthProvider, which renders its initial state; its effect calls
\* initializeAuth, which issues getItem(AUTH_USER_KEY)
AuthProviderMount ==
  /\ authInit.pc = "unmounted"
  /\ ~themeState.isLoading
  /\ authInit' = [authInit EXCEPT !.pc = "reading"]
  /\ renderedTheme' = themeState.theme
  /\ renderedAuthState' = authState
  /\ UNCHANGED <<alerts, history, kv, themeState, themeInit, themeSaves, toggles, authState,
                 calls, now>>

\* AuthProvider renders again after a setAuthState: AppNavigation and the
\* screens show the AuthState of this render
AuthProviderRender ==
  /\ ~Running
  /\ authInit.pc # "unmounted"
  /\ renderedAuthState # authState
  /\ renderedAuthState' = authState
  /\ UNCHANGED <<renderedTheme, alerts, history, kv, themeState, themeInit,
                 themeSaves, toggles, authInit, authState, calls, now>>

\* initializeAuth resumes after loadUserFromStorage
InitializeAuthComplete ==
  /\ ~Running
  /\ authInit.pc = "reading"
  /\ \E r \in GetItemOutcomes(AUTH_USER_KEY) :
       /\ authInit' = [pc |-> "done", userData |-> r,
                       persistedUser |-> loadUserFromStorage(r)]
       /\ authState' = initializeAuth(authState, loadUserFromStorage(r))
  /\ UNCHANGED <<renderedAuthState, renderedTheme, alerts, history, kv, themeState, themeInit, themeSaves, toggles, calls, now>>

\* the context exists and fewer than maxCalls calls were made
CanCall(maxCalls) ==
  authInit.pc # "unmounted" /\ ~Running /\ Len(calls) < maxCalls

NewCall(op, pc, credentials) ==
  [op |-> op, pc |-> pc, credentials |-> credentials, mockUser |-> null,
   userData |-> <<>>, result |-> null]

\* login is called: setAuthState(prev => ({ ...prev, isLoading: true }))
login(inputs, maxCalls) ==
  /\ CanCall(maxCalls)
  /\ \E c \in inputs :
       calls' = Append(calls, NewCall("login", "validating", c))
  /\ authState' = setIsLoading(authState, TRUE)
  /\ UNCHANGED <<renderedTheme, alerts, history, kv, themeState, themeInit,
                 themeSaves, toggles, authInit, now>>

\* login called through the context value, outside a press event
LoginCall(inputs, maxCalls) ==
  login(inputs, maxCalls) /\ UNCHANGED renderedAuthState

\* the validation of login: a throw is caught, resets isLoading and returns
\* the failure; otherwise login awaits the timer
LoginValidate ==
  \E i \in 1..Len(calls) :
    /\ calls[i].op = "login" /\ calls[i].pc = "validating"
    /\ LET errorMessage == loginValidation(calls[i].credentials)
       IN  IF errorMessage # NoError
             THEN /\ authState' = setIsLoading(authState, FALSE)
                  /\ calls' = [calls EXCEPT ![i].pc = "returned",
                                 ![i].result = [success |-> FALSE,
                                                error |-> errorMessage]]
             ELSE /\ calls' = [calls EXCEPT ![i].pc = "delay"]
                  /\ UNCHANGED authState
    /\ UNCHANGED <<renderedAuthState, renderedTheme, alerts, history, kv, themeState, themeInit, themeSaves, toggles, authInit,
                   now>>

\* the timer of login fires: mockUser, setAuthState, saveUserToStorage issues
\* setItem(AUTH_USER_KEY, JSON.stringify(mockUser))
LoginDelayElapsed ==
  /\ ~Running
  /\ \E i \in 1..Len(calls) :
       /\ calls[i].op = "login" /\ calls[i].pc = "delay"
       /\ LET mockUser == loginMockUser(calls[i].credentials, now)
          IN  /\ authState' = authenticatedState(mockUser)
              /\ calls' = [calls EXCEPT ![i].pc = "saving",
                             ![i].mockUser = mockUser,
                             ![i].userData = JSONstringify(mockUser)]
  /\ UNCHANGED <<renderedAuthState, renderedTheme, alerts, history, kv, themeState, themeInit, themeSaves, toggles, authInit,
                 now>>

\* signup is called: setAuthState(prev => ({ ...prev, isLoading: true }))
signup(inputs, maxCalls) ==
  /\ CanCall(maxCalls)
  /\ \E c \in inputs :
       calls' = Append(calls, NewCall("signup", "validating", c))
  /\ authState' = setIsLoading(authState, TRUE)
  /\ UNCHANGED <<renderedTheme, alerts, history, kv, themeState, themeInit,
                 themeSaves, toggles, authInit, now>>

\* signup called through the context value, outside a press event
SignupCall(inputs, maxCalls) ==
  signup(inputs, maxCalls) /\ UNCHANGED renderedAuthState

\* the validation of signup
SignupValidate ==
  \E i \in 1..Len(calls) :
    /\ calls[i].op = "signup" /\ calls[i].pc = "validating"
    /\ LET errorMessage == signupValidation(calls[i].credentials)
       IN  IF errorMessage # NoError
             THEN /\ authState' = setIsLoading(authState, FALSE)
                  /\ calls' = [calls EXCEPT ![i].pc = "returned",
                                 ![i].result = [success |-> FALSE,
                                                error |-> errorMessage]]
             ELSE /\ calls' = [calls EXCEPT ![i].pc = "delay"]
                  /\ UNCHANGED authState
    /\ UNCHANGED <<renderedAuthState, renderedTheme, alerts, history, kv, themeState, themeInit, themeSaves, toggles, authInit,
                   now>>

\* the timer of signup fires
SignupDelayElapsed ==
  /\ ~Running
  /\ \E i \in 1..Len(calls) :
       /\ calls[i].op = "signup" /\ calls[i].pc = "delay"
       /\ LET mockUser == signupMockUser(calls[i].credentials, now)
          IN  /\ authState' = authenticatedState(mockUser)
              /\ calls' = [calls EXCEPT ![i].pc = "saving",
                             ![i].mockUser = mockUser,
                             ![i].userData = JSONstringify(mockUser)]
  /\ UNCHANGED <<renderedAuthState, renderedTheme, alerts, history, kv, themeState, themeInit, themeSaves, toggles, authInit,
                 now>>

\* a rejected setItem reaching the catch block of the caller
SaveUserComplete_failureSurfaced ==
  /\ ~Running
  /\ \E i \in 1..Len(calls), ok \in BOOLEAN :
       /\ calls[i].pc = "saving"
       /\ kv' = [kv EXCEPT ![AUTH_USER_KEY] =
                   setItemOutcome(@, calls[i].userData, ok)]
       /\ calls' = [calls EXCEPT ![i].pc = "returned",
                      ![i].result =
                        IF ok THEN [success |-> TRUE,
                                    user |-> calls[i].mockUser]
                        ELSE [success |-> FALSE, error |-> "Login failed"]]
       /\ authState' = IF ok THEN authState
                       ELSE setIsLoading(authState, FALSE)
  /\ UNCHANGED <<renderedAuthState, renderedTheme, alerts, history, themeState, themeInit, themeSaves, toggles,
                 authInit, now>>

\* the setItem of saveUserToStorage settles (a rejection is caught and
\* logged); login or signup returns { success: true, user: mockUser }
SaveUserComplete ==
  /\ ~Running
  /\ \E i \in 1..Len(calls), ok \in BOOLEAN :
       /\ calls[i].pc = "saving"
       /\ kv' = [kv EXCEPT ![AUTH_USER_KEY] =
                   setItemOutcome(@, calls[i].userData, ok)]
       /\ calls' = [calls EXCEPT ![i].pc = "returned",
                      ![i].result = [success |-> TRUE,
                                     user |-> calls[i].mockUser]]
  /\ UNCHANGED <<renderedAuthState, renderedTheme, alerts, history, themeState, themeInit, themeSaves, toggles, authInit,
                 authState, now>>

\* logout setting the logged-out state before clearAuthStorage
LogoutCall_resetsFirst(maxCalls) ==
  /\ CanCall(maxCalls)
  /\ calls' = Append(calls, NewCall("logout", "removing", null))
  /\ authState' = loggedOutState
  /\ UNCHANGED <<renderedAuthState, renderedTheme, alerts, history, kv, themeState, themeInit, themeSaves, toggles,
                 authInit, now>>

\* logout up to its first await: clearAuthStorage issues
\* removeItem(AUTH_USER_KEY)
logout(maxCalls) ==
  /\ CanCall(maxCalls)
  /\ calls' = Append(calls, NewCall("logout", "removing", null))
  /\ UNCHANGED <<renderedAuthState, renderedTheme, history, kv, themeState, themeInit, themeSaves, toggles,
                 authInit, authState, now>>

\* logout is called by a consumer of the context
LogoutCall(maxCalls) == logout(maxCalls) /\ UNCHANGED alerts

\* the removeItem settles (a rejection is caught and logged); logout sets
\* the logged-out state and returns
RemoveUserComplete ==
  /\ ~Running
  /\ \E i \in 1..Len(calls), ok \in BOOLEAN :
       /\ calls[i].pc = "removing"
       /\ kv' = [kv EXCEPT ![AUTH_USER_KEY] = removeItemOutcome(@, ok)]
       /\ calls' = [calls EXCEPT ![i].pc = "returned"]
  /\ authState' = loggedOutState
  /\ UNCHANGED <<renderedAuthState, renderedTheme, alerts, history, themeState, themeInit, themeSaves, toggles, authInit, now>>

\* the clock advances
Tick ==
  /\ ~Running
  /\ now < MaxClock
  /\ now' = now + 1
  /\ UNCHANGED <<renderedAuthState, renderedTheme, alerts, history, kv, themeState, themeInit, themeSaves, toggles, authInit,
                 authState, calls>>

\* every call made in this run of the process has returned
AllReturned == \A i \in 1..Len(calls) : calls[i].pc = "returned"

\* the process is restarted after the calls of this run have returned: App
\* renders the providers anew with their initial state, the key-value store
\* keeps its entries
Restart ==
  /\ calls # <<>> /\ AllReturned
  /\ themeSaves = <<>>
  /\ history' = history \o calls
  /\ calls' = <<>>
  /\ themeState' = [theme |-> light, isLoading |-> TRUE]
  /\ themeInit' = [pc |-> "reading", savedTheme |-> Absent]
  /\ authInit' = [pc |-> "unmounted", userData |-> Absent,
                 persistedUser |-> null]
  /\ authState' = InitialAuthState
  /\ alerts' = 0
  /\ renderedTheme' = light
  /\ renderedAuthState' = InitialAuthState
  /\ UNCHANGED <<kv, toggles, themeSaves, now>>

\* both restores, and overlapping calls of the Session Store on a few inputs
Next ==
  \/ LoadThemeComplete
  \/ AuthProviderMount
  \/ InitializeAuthComplete
  \/ LoginCall(LoginInputs, MaxCalls)
  \/ LoginValidate
  \/ LoginDelayElapsed
  \/ SignupCall(SignupInputs, MaxCalls)
  \/ SignupValidate
  \/ SignupDelayElapsed
  \/ SaveUserComplete
  \/ LogoutCall(MaxCalls)
  \/ RemoveUserComplete
  \/ Tick

Spec == Init /\ [][Next]_vars

\* both restores, with one call of the Session Store
NextRestore ==
  \/ LoadThemeComplete
  \/ AuthProviderMount
  \/ InitializeAuthComplete
  \/ LoginCall(LoginInputs, 1)
  \/ LoginValidate
  \/ LoginDelayElapsed
  \/ SaveUserComplete
  \/ LogoutCall(1)
  \/ RemoveUserComplete

\* the scheduling of the runtime: a pending getItem settles, the effect of
\* a rendered provider runs, and a handler that has started runs to its
\* first await
LiveSpec ==
  /\ Init /\ [][NextRestore]_vars
  /\ WF_vars(LoadThemeComplete)
  /\ WF_vars(AuthProviderMount)
  /\ WF_vars(InitializeAuthComplete)
  /\ WF_vars(LoginValidate)

\* the scheduling when the getItem of loadTheme never settles: the effect of
\* a rendered provider runs, a pending getItem of the user key settles and a
\* handler that has started runs to its first await
SpecThemeReadPending ==
  /\ Init /\ [][NextRestore]_vars
  /\ WF_vars(AuthProviderMount)
  /\ WF_vars(InitializeAuthComplete)
  /\ WF_vars(LoginValidate)

\* one call on every input within the bounds
NextInputs ==
  \/ LoadThemeComplete
  \/ AuthProviderMount
  \/ InitializeAuthComplete
  \/ LoginCall(LoginCredentials, 1)
  \/ LoginValidate
  \/ LoginDelayElapsed
  \/ SignupCall(SignupCredentials, 1)
  \/ SignupValidate
  \/ SignupDelayElapsed
  \/ SaveUserComplete
  \/ Tick

SpecInputs == Init /\ [][NextInputs]_vars

\* both stores, with one call of the Session Store
NextStores ==
  \/ LoadThemeComplete
  \/ ThemeProviderRender
  \/ ToggleTheme
  \/ SaveThemeComplete
  \/ AuthProviderMount
  \/ InitializeAuthComplete
  \/ LoginCall(LoginInputs, 1)
  \/ LoginValidate
  \/ LoginDelayElapsed
  \/ SignupCall(SignupInputs, 1)
  \/ SignupValidate
  \/ SignupDelayElapsed
  \/ SaveUserComplete
  \/ LogoutCall(1)
  \/ RemoveUserComplete
  \/ Tick

SpecStores == Init /\ [][NextStores]_vars

\* a call is made once the calls before it have returned, MaxCalls calls over
\* all runs of the process
OneAtATime == AllReturned /\ Len(history) + Len(calls) < MaxCalls

\* calls one after the other, and restarts of the process
NextRestart ==
  \/ LoadThemeComplete
  \/ AuthProviderMount
  \/ InitializeAuthComplete
  \/ OneAtATime /\ LoginCall(LoginInputs, MaxCalls)
  \/ LoginValidate
  \/ LoginDelayElapsed
  \/ OneAtATime /\ SignupCall(SignupInputs, MaxCalls)
  \/ SignupValidate
  \/ SignupDelayElapsed
  \/ SaveUserComplete
  \/ OneAtATime /\ LogoutCall(MaxCalls)
  \/ RemoveUserComplete
  \/ Tick
  \/ Restart

SpecRestart == Init /\ [][NextRestart]_vars

\* the Preference Store with toggles called once its restore has completed,
\* in one turn or in separate turns, before or after the render that shows
\* the theme set last
NextToggle ==
  \/ LoadThemeComplete
  \/ ThemeProviderRender
  \/ ~themeState.isLoading /\ ToggleTheme
  \/ ~themeState.isLoading /\ ToggleThemeTwice
  \/ SaveThemeComplete
  \/ AuthProviderMount
  \/ InitializeAuthComplete

SpecToggle == Init /\ [][NextToggle]_vars

\* the storage call that settles in this step succeeds: the getItem returns
\* the entry, the setItem stores its value, the removeItem removes the entry
ReadSucceeds ==
  authInit'.userData # IOError /\ themeInit'.savedTheme # IOError
WriteSucceeds ==
  \E i \in 1..Len(calls) :
    /\ calls[i].pc = "saving" /\ calls'[i].pc = "returned"
    /\ kv'[AUTH_USER_KEY] = Stored(calls[i].userData)
RemoveSucceeds == kv'[AUTH_USER_KEY] = Absent

\* overlapping calls made once the session restore has completed, every
\* storage call succeeding
NextOverlap ==
  \/ LoadThemeComplete /\ ReadSucceeds
  \/ AuthProviderMount
  \/ InitializeAuthComplete /\ ReadSucceeds
  \/ authInit.pc = "done" /\ LoginCall(LoginInputs, MaxCalls)
  \/ LoginValidate
  \/ LoginDelayElapsed
  \/ authInit.pc = "done" /\ SignupCall(SignupInputs, MaxCalls)
  \/ SignupValidate
  \/ SignupDelayElapsed
  \/ SaveUserComplete /\ WriteSucceeds
  \/ authInit.pc = "done" /\ LogoutCall(MaxCalls)
  \/ RemoveUserComplete /\ RemoveSucceeds
  \/ Tick

SpecOverlap == Init /\ [][NextOverlap]_vars

\* overlapping logins and signups made once the session restore has
\* completed; the code of a call runs on, its timer fires and its setItem
\* settles, with success or with a rejection
NextReturn ==
  \/ LoadThemeComplete
  \/ AuthProviderMount
  \/ InitializeAuthComplete
  \/ authInit.pc = "done" /\ LoginCall(LoginInputs, MaxCalls)
  \/ LoginValidate
  \/ LoginDelayElapsed
  \/ authInit.pc = "done" /\ SignupCall(SignupInputs, MaxCalls)
  \/ SignupValidate
  \/ SignupDelayElapsed
  \/ SaveUserComplete

SpecReturn ==
  /\ Init /\ [][NextReturn]_vars
  /\ WF_vars(LoginValidate)
  /\ WF_vars(LoginDelayElapsed)
  /\ WF_vars(SignupValidate)
  /\ WF_vars(SignupDelayElapsed)
  /\ WF_vars(SaveUserComplete)

\* -------------------------------------------------- the reference screens
\* LoginScreen.validateForm on the typed email and password
loginFormValid(email, password) ==
  /\ trim(email) # <<>>
  /\ includes(email, "@") /\ includes(email, ".")
  /\ trim(password) # <<>>
  /\ Len(password) >= 6

\* SignupScreen.validateForm on the typed name, email and password
signupFormValid(name, email, password) ==
  /\ trim(name) # <<>>
  /\ Len(trim(name)) >= 2
  /\ trim(email) # <<>>
  /\ includes(email, "@") /\ includes(email, ".")
  /\ Len(trim(email)) >= 5
  /\ trim(password) # <<>>
  /\ Len(password) >= 6

\* what the user has typed when pressing the button: a form the screen
\* accepts and a form it rejects
LoginForms ==
  {[email |-> <<"a", "@", ".">>,
    password |-> [i \in 1..MinPasswordLength |-> "p"]],
   [email |-> <<"a", "@">>, password |-> <<"p">>]}
SignupForms ==
  {[name |-> <<"n", "n">>, email |-> <<"a", "@", "b", ".", "c">>,
    password |-> [i \in 1..MinPasswordLength |-> "p"]],
   [name |-> <<"n">>, email |-> <<"a", "@", "b", ".", "c">>,
    password |-> [i \in 1..MinPasswordLength |-> "p"]]}

\* AppNavigation renders AuthNavigator (LoginScreen, SignupScreen) or
\* MainNavigator (HomeScreen) once isInitializing is false, from the
\* AuthState of the last render
AuthNavigator ==
  /\ authInit.pc # "unmounted"
  /\ ~renderedAuthState.isInitializing
  /\ ~renderedAuthState.isAuthenticated
MainNavigator ==
  /\ authInit.pc # "unmounted"
  /\ ~renderedAuthState.isInitializing
  /\ renderedAuthState.isAuthenticated

\* LoginScreen.handleLogin: the button is rendered while isLoading is false;
\* a form that passes validateForm is handed to login.  React renders the
\* updates made in a press event before the next event: the form having
\* passed validateForm, login's own validation passes and leaves the state
\* that login's first statement set, which is the state rendered
handleLogin ==
  /\ AuthNavigator /\ ~renderedAuthState.isLoading
  /\ \E f \in LoginForms :
       /\ loginFormValid(f.email, f.password)
       /\ login({[email |-> trim(f.email), password |-> f.password]},
                MaxCalls)
  /\ renderedAuthState' = authState'

\* SignupScreen.handleSignup
handleSignup ==
  /\ AuthNavigator /\ ~renderedAuthState.isLoading
  /\ \E f \in SignupForms :
       /\ signupFormValid(f.name, f.email, f.password)
       /\ signup({[email |-> trim(f.email), password |-> f.password,
                   name |-> trim(f.name)]}, MaxCalls)
  /\ renderedAuthState' = authState'

\* HomeScreen.handleLogout: the screen renders the Logout button while
\* isLoading is false and user is not null in its last render; the handler
\* opens the alert and returns
handleLogout ==
  /\ MainNavigator
  /\ ~renderedAuthState.isLoading /\ renderedAuthState.user # null
  /\ ~Running
  /\ alerts < MaxAlerts
  /\ alerts' = alerts + 1
  /\ UNCHANGED <<renderedAuthState, renderedTheme, history, kv, themeState, themeInit, themeSaves, toggles,
                 authInit, authState, calls, now>>

\* the Logout button of the alert is pressed: its onPress calls logout(),
\* whatever the session has become since the alert was opened
logoutAlertOnPress ==
  /\ alerts > 0
  /\ alerts' = alerts - 1
  /\ logout(MaxCalls)

\* the Cancel button of the alert is pressed
logoutAlertCancel ==
  /\ alerts > 0
  /\ ~Running
  /\ alerts' = alerts - 1
  /\ UNCHANGED <<renderedAuthState, renderedTheme, history, kv, themeState, themeInit, themeSaves, toggles,
                 authInit, authState, calls, now>>

\* the reference screens as the only callers of the Session Store
NextScreens ==
  \/ LoadThemeComplete
  \/ AuthProviderMount
  \/ InitializeAuthComplete
  \/ AuthProviderRender
  \/ handleLogin
  \/ LoginValidate
  \/ LoginDelayElapsed
  \/ handleSignup
  \/ SignupValidate
  \/ SignupDelayElapsed
  \/ SaveUserComplete
  \/ handleLogout
  \/ logoutAlertOnPress
  \/ logoutAlertCancel
  \/ RemoveUserComplete
  \/ Tick

SpecScreens == Init /\ [][NextScreens]_vars

\* ============================================================ properties

\* a call that has made its final setAuthState: login and signup after the
\* delay, logout after the removeItem settled
HasSetState(call) ==
  \/ call.op \in {"login", "signup"} /\ call.pc \in {"saving", "returned"}
       /\ call.mockUser # null
  \/ call.op = "logout" /\ call.pc = "returned"

\* C1: in every reachable state, under any interleaving of the restore, login,
\* signup and logout, isAuthenticated is true exactly when user is non-null.
C1_AuthenticatedIffUser ==
  authState.isAuthenticated = (authState.user # null)

\* a login has authenticated the session after an overlapping logout returned
C1_Witness ==
  /\ authState.isAuthenticated /\ authState.user # null
  /\ \E i \in 1..Len(calls) : calls[i].op = "logout" /\ calls[i].pc = "returned"

\* C2: isInitializing starts true and, once false, is never true again.
C2_InitializingOnce ==
  /\ authState.isInitializing
  /\ [][~authState.isInitializing => ~authState'.isInitializing]_vars

\* a login has failed and returned after isInitializing became false
C2_Witness ==
  /\ ~authState.isInitializing
  /\ authInit.pc = "done"
  /\ \E i \in 1..Len(calls) :
       /\ calls[i].op = "login" /\ calls[i].pc = "returned"
       /\ ~calls[i].result.success

\* C3: whatever the reads return (a value, absent, a failure), the Session
\* Store eventually has isInitializing = false and the Preference Store
\* eventually has isLoading = false, and they stay so.
C3_RestoreResolves ==
  /\ <>[](authInit.pc = "done" /\ ~authState.isInitializing)
  /\ <>[](themeInit.pc = "done" /\ ~themeState.isLoading)

\* both restores have completed after a failed read
C3_Witness ==
  /\ authInit.pc = "done" /\ authInit.userData = IOError
  /\ ~authState.isInitializing
  /\ themeInit.pc = "done" /\ themeInit.savedTheme = IOError
  /\ ~themeState.isLoading

\* C4 as stated: a store whose flag is false has completed its restore read,
\* whatever login, signup or logout settled meanwhile.
C4_FlagFalseOnlyAfterRestore ==
  /\ ~authState.isInitializing => authInit.pc = "done"
  /\ ~themeState.isLoading => themeInit.pc = "done"

\* C4 amended: isLoading = false of the Preference Store means its restore
\* read has completed; isInitializing = false of the Session Store means its
\* restore read has completed or a login, signup or logout has made its final
\* state update.
C4_FlagFalseAfterRestoreOrCall ==
  /\ ~themeState.isLoading => themeInit.pc = "done"
  /\ ~authState.isInitializing =>
       \/ authInit.pc = "done"
       \/ \E i \in 1..Len(calls) : HasSetState(calls[i])

\* isInitializing is false while the restore read is still pending
C4_Witness ==
  /\ ~authState.isInitializing
  /\ authInit.pc = "reading"
  /\ \E i \in 1..Len(calls) : HasSetState(calls[i])

\* the JSON texts of the user records within the bounds; a read outcome r
\* holds a user record when its text is one of them (an absent key, a failed
\* read and any other text hold none)
KnownUsers ==
  {User(toString(n), e, m) :
     n \in 0..MaxClock, e \in Emails, m \in Names \cup Emails}
KnownUserTexts == {JSONstringify(u) : u \in KnownUsers}
HoldsUserRecord(r) ==
  r # IOError /\ r # Absent /\ r.value \in KnownUserTexts

\* u is the user record of the text in r
IsStoredUser(u, r) == u # null /\ JSONstringify(u) = r.value

\* the step in which initializeAuth resumes
RestoreCompletes == authInit.pc = "reading" /\ authInit'.pc = "done"

\* C5 as stated: when the restore completes, the session is authenticated with
\* the stored user if the read returned a parseable user record, and is
\* unauthenticated right after if the read returned absent or failed.  (What
\* the restore does with a text that is no user record is the subject of C6.)
C5_RestoreAuthenticatesIffRecord ==
  [][RestoreCompletes =>
       /\ HoldsUserRecord(authInit'.userData) =>
            /\ IsStoredUser(authState'.user, authInit'.userData)
            /\ authState'.isAuthenticated
       /\ authInit'.userData \in {Absent, IOError} =>
            /\ authState'.user = null
            /\ ~authState'.isAuthenticated]_vars

\* the entry r holds a text that is not the JSON of a user record
Unparseable(r) ==
  r # IOError /\ r # Absent /\ r.value \notin KnownUserTexts

\* C6 as stated: a stored value that cannot be parsed as a user record is
\* treated as absent: the restore reads no user and the session resolves to
\* unauthenticated with isInitializing = false.
C6_UnparseableGivesLoggedOut ==
  [][RestoreCompletes /\ Unparseable(authInit'.userData) =>
       /\ ~truthy(authInit'.persistedUser)
       /\ authState'.user = null /\ ~authState'.isAuthenticated
       /\ ~authState'.isInitializing]_vars

\* credentials the validation of login and of signup rejects
LoginRejected(c) ==
  c.email = <<>> \/ c.password = <<>> \/ \A k \in 1..Len(c.email) : c.email[k] # "@"
SignupRejected(c) ==
  \/ c.email = <<>> \/ c.password = <<>> \/ c.name = <<>>
  \/ \A k \in 1..Len(c.email) : c.email[k] # "@"
  \/ Len(c.password) < 6
FailsValidation(call) ==
  \/ call.op = "login" /\ LoginRejected(call.credentials)
  \/ call.op = "signup" /\ SignupRejected(call.credentials)

\* the step in which call i is made, and the step in which its validation runs
CallStep(i) == i = Len(calls') /\ Len(calls') = Len(calls) + 1
ValidateStep(i) ==
  i <= Len(calls) /\ calls[i].pc = "validating" /\ calls'[i].pc # "validating"

\* C7 as stated: a login or signup whose credentials fail validation returns
\* a failure and, from call to return, changes no field of the session state
\* and issues no write or remove to the key-value store.
C7_RejectedChangesNothing ==
  [][\A i \in 1..Len(calls') : FailsValidation(calls'[i]) =>
       /\ CallStep(i) => authState' = authState /\ kv' = kv
       /\ ValidateStep(i) =>
            /\ calls'[i].pc = "returned" /\ ~calls'[i].result.success
            /\ authState' = authState /\ kv' = kv]_vars

\* C8: a login with an empty email or an empty password returns success =
\* false and leaves isAuthenticated and user as they were before the call.
C8_EmptyLoginFails ==
  [][\A i \in 1..Len(calls') :
       /\ calls'[i].op = "login"
       /\ calls'[i].credentials.email = <<>>
            \/ calls'[i].credentials.password = <<>>
       => /\ CallStep(i) =>
               /\ authState'.user = authState.user
               /\ authState'.isAuthenticated = authState.isAuthenticated
          /\ ValidateStep(i) =>
               /\ calls'[i].pc = "returned" /\ ~calls'[i].result.success
               /\ authState'.user = authState.user
               /\ authState'.isAuthenticated = authState.isAuthenticated]_vars

\* a login with a well-formed email and an empty password has failed in an
\* authenticated session, which is still authenticated
C8_Witness ==
  \E i \in 1..Len(calls) :
    /\ calls[i].op = "login" /\ calls[i].pc = "returned"
    /\ calls[i].credentials.password = <<>>
    /\ calls[i].credentials.email = <<"a", "@">>
    /\ ~calls[i].result.success
    /\ authState.isAuthenticated /\ authState.user # null

\* name is the part of email before its first "@"
IsLocalPart(name, email) ==
  /\ Len(name) < Len(email)
  /\ \A k \in 1..Len(name) : name[k] = email[k] /\ name[k] # "@"
  /\ email[Len(name) + 1] = "@"

\* C9: a login with a non-empty email that contains "@" and a non-empty
\* password of any length passes validation; after the delay the session
\* state becomes {user, isAuthenticated: true, isLoading: false} with the
\* email of the input and the part of it before the first "@" as name, and
\* the call returns success = true with that user.
C9_LoginSucceeds ==
  [][\A i \in 1..Len(calls) :
       /\ calls[i].op = "login"
       /\ calls[i].credentials.email # <<>>
       /\ \E k \in 1..Len(calls[i].credentials.email) :
            calls[i].credentials.email[k] = "@"
       /\ calls[i].credentials.password # <<>>
       => /\ ValidateStep(i) => calls'[i].pc = "delay"
          /\ calls[i].pc = "delay" /\ calls'[i].pc # "delay" =>
               /\ calls'[i].pc = "saving"
               /\ authState'.user = calls'[i].mockUser
               /\ authState'.user.obj.email.str
                    = calls[i].credentials.email
               /\ IsLocalPart(authState'.user.obj.name.str,
                              calls[i].credentials.email)
               /\ authState'.isAuthenticated /\ ~authState'.isLoading
          /\ calls[i].pc = "saving" /\ calls'[i].pc # "saving" =>
               /\ calls'[i].pc = "returned"
               /\ calls'[i].result = [success |-> TRUE,
                                      user |-> calls[i].mockUser]
               /\ calls'[i].result.user.obj.email.str
                    = calls[i].credentials.email
               /\ IsLocalPart(calls'[i].result.user.obj.name.str,
                              calls[i].credentials.email)]_vars

\* a login with a one-character password has returned success and the session
\* holds its user
C9_Witness ==
  \E i \in 1..Len(calls) :
    /\ calls[i].op = "login" /\ calls[i].pc = "returned"
    /\ calls[i].credentials = [email |-> <<"a", "@">>, password |-> <<"p">>]
    /\ calls[i].result.success
    /\ calls[i].result.user.obj.name.str = <<"a">>
    /\ authState.user = calls[i].result.user
    /\ authState.isAuthenticated /\ ~authState.isLoading

LengthMessage == "Password must be at least 6 characters"

\* C10 as stated: a signup whose password has fewer than 6 characters returns
\* success = false with the message about the password length, whatever the
\* name and the email are.
C10_ShortPasswordLengthMessage ==
  \A i \in 1..Len(calls) :
    calls[i].op = "signup" /\ Len(calls[i].credentials.password) < 6 =>
      /\ calls[i].pc \in {"validating", "returned"}
      /\ calls[i].pc = "returned" =>
           /\ ~calls[i].result.success
           /\ calls[i].result.error = LengthMessage

\* C10 amended: a signup whose password has fewer than 6 characters returns
\* success = false; the message is the one about the password length when
\* name, email and password are non-empty and the email contains "@", it is
\* "All fields are required" when one of the three is empty and "Please enter
\* a valid email" when none is empty and the email has no "@".
C10_ShortPasswordFails ==
  \A i \in 1..Len(calls) :
    calls[i].op = "signup" /\ Len(calls[i].credentials.password) < 6 =>
      /\ calls[i].pc \in {"validating", "returned"}
      /\ calls[i].pc = "returned" =>
           /\ ~calls[i].result.success
           /\ calls[i].result.error =
                IF \/ calls[i].credentials.email = <<>>
                   \/ calls[i].credentials.password = <<>>
                   \/ calls[i].credentials.name = <<>>
                  THEN "All fields are required"
                ELSE IF \A k \in 1..Len(calls[i].credentials.email) :
                          calls[i].credentials.email[k] # "@"
                  THEN "Please enter a valid email"
                ELSE LengthMessage

\* a signup with a five-character password and well-formed name and email has
\* returned the message about the length
C10_Witness ==
  \E i \in 1..Len(calls) :
    /\ calls[i].op = "signup" /\ calls[i].pc = "returned"
    /\ Len(calls[i].credentials.password) = 5
    /\ calls[i].credentials.email = <<"a", "@">>
    /\ calls[i].credentials.name # <<>>
    /\ ~calls[i].result.success
    /\ calls[i].result.error = LengthMessage

\* C11 as stated: a signup whose name is empty after trimming or shorter than
\* 2 characters returns success = false and creates no user.
C11_ShortNameRejected ==
  \A i \in 1..Len(calls) :
    /\ calls[i].op = "signup"
    /\ trim(calls[i].credentials.name) = <<>>
         \/ Len(calls[i].credentials.name) < 2
    => /\ calls[i].pc \in {"validating", "returned"}
       /\ calls[i].mockUser = null
       /\ calls[i].pc = "returned" => ~calls[i].result.success

\* the process has been restarted, no call was made since, and the restore of
\* this run has completed
RestoredAfterRestart == history # <<>> /\ calls = <<>> /\ authInit.pc = "done"

\* the last call that returned before the restart was a successful login or
\* signup
LastCallSucceeded ==
  /\ history[Len(history)].op \in {"login", "signup"}
  /\ history[Len(history)].result.success

\* the value u has the id and the email of the user w
SameIdAndEmail(u, w) ==
  /\ "obj" \in DOMAIN u
  /\ {"id", "email"} \subseteq DOMAIN u.obj
  /\ u.obj.id = w.obj.id /\ u.obj.email = w.obj.email

\* C12 as stated: after a login or signup that returned success = true, a
\* restart rehydrates the session to isAuthenticated = true with a user whose
\* email and id are those of the user the call returned.
C12_RestartRehydrates ==
  RestoredAfterRestart /\ LastCallSucceeded =>
    /\ authState.isAuthenticated
    /\ authState.user # null
    /\ SameIdAndEmail(authState.user, history[Len(history)].result.user)

\* C12 amended: the write of a successful login or signup either stores the
\* JSON text of the returned user or fails and leaves the entry as it was
\* (success = true is returned in both cases); after a restart, when the read
\* of the restore returns the text of the user the last call returned, the
\* session rehydrates to isAuthenticated = true with the email and the id of
\* that user.
C12_RestartRehydratesWrittenUser ==
  /\ [][\A i \in 1..Len(calls) :
          calls[i].pc = "saving" /\ calls'[i].pc = "returned" =>
            /\ calls'[i].result.success
            /\ kv'[AUTH_USER_KEY] \in
                 {Stored(JSONstringify(calls'[i].result.user)),
                  kv[AUTH_USER_KEY]}]_vars
  /\ [](/\ RestoredAfterRestart /\ LastCallSucceeded
        /\ authInit.userData =
             Stored(JSONstringify(history[Len(history)].result.user))
        => /\ authState.isAuthenticated
           /\ authState.user # null
           /\ SameIdAndEmail(authState.user,
                             history[Len(history)].result.user))

\* after a restart the session holds the user a signup of the run before
\* returned
C12_Witness ==
  /\ RestoredAfterRestart /\ LastCallSucceeded
  /\ history[Len(history)].op = "signup"
  /\ authState.isAuthenticated
  /\ authState.user = history[Len(history)].result.user
  /\ ~authState.isInitializing

\* the step in which the removeItem of logout call i settles and the call
\* returns
LogoutReturns(i) ==
  calls[i].op = "logout" /\ calls[i].pc = "removing"
    /\ calls'[i].pc = "returned"

\* C13 as stated: after logout has returned the persisted user key is absent,
\* and a restore after it yields isAuthenticated = false.
C13_LogoutThenAbsent ==
  /\ calls # <<>> /\ AllReturned /\ calls[Len(calls)].op = "logout" =>
       kv[AUTH_USER_KEY] = Absent
  /\ RestoredAfterRestart /\ history[Len(history)].op = "logout" =>
       ~authState.isAuthenticated

\* C13 amended: when logout returns, the persisted user key is absent if the
\* remove succeeded and is left as it was if the remove failed; the session is
\* logged out and no error is raised, also when the call before it was a
\* logout, and then a key that was absent stays absent.  A restore after a
\* restart that follows the logout yields isAuthenticated = false when it
\* finds the key absent or its read fails.
C13_LogoutClearsUnlessRemoveFails ==
  /\ [][\A i \in 1..Len(calls) : LogoutReturns(i) =>
          /\ kv'[AUTH_USER_KEY] \in {Absent, kv[AUTH_USER_KEY]}
          /\ authState'.user = null /\ ~authState'.isAuthenticated
          /\ ~authState'.isLoading /\ ~authState'.isInitializing
          /\ calls'[i].result = null
          /\ i > 1 /\ calls[i - 1].op = "logout"
               /\ kv[AUTH_USER_KEY] = Absent =>
               kv'[AUTH_USER_KEY] = Absent]_vars
  /\ [](/\ RestoredAfterRestart /\ history[Len(history)].op = "logout"
        /\ authInit.userData \in {Absent, IOError}
        => authState.user = null /\ ~authState.isAuthenticated)

\* a second logout has returned in a session that was restored from a stored
\* user: the key is absent and the session is logged out
C13_Witness ==
  /\ Len(calls) = 2 /\ AllReturned
  /\ calls[1].op = "logout" /\ calls[2].op = "logout"
  /\ authInit.pc = "done" /\ authInit.persistedUser # null
  /\ kv[AUTH_USER_KEY] = Absent
  /\ authState.user = null /\ ~authState.isAuthenticated

\* C14: logout always succeeds: for every prior state, and whether the remove
\* succeeds or fails, logout returns without an error and the session state at
\* its return is {user: null, isAuthenticated: false, isLoading: false,
\* isInitializing: false}.
C14_LogoutAlwaysSucceeds ==
  [][\A i \in 1..Len(calls) : LogoutReturns(i) =>
       /\ authState' = [user |-> null, isAuthenticated |-> FALSE,
                        isLoading |-> FALSE, isInitializing |-> FALSE]
       /\ calls'[i].result = null]_vars

\* a logout whose remove failed has returned while a login awaits its timer
\* and the restore read is pending: the session is logged out
C14_Witness ==
  \E i, j \in 1..Len(calls) :
    /\ calls[i].op = "logout" /\ calls[i].pc = "returned"
    /\ j < i /\ calls[j].op = "login" /\ calls[j].pc = "delay"
    /\ authInit.pc = "reading"
    /\ HoldsUserRecord(kv[AUTH_USER_KEY])
    /\ authState.user = null /\ ~authState.isAuthenticated
    /\ ~authState.isLoading /\ ~authState.isInitializing

\* the step in which the setItem of login or signup call i settles and the
\* call returns
SaveReturns(i) == calls[i].pc = "saving" /\ calls'[i].pc = "returned"

\* C15: a failure of the key-value store is not surfaced and does not change
\* the in-memory outcome.  The step after the delay authenticates the session
\* with the new user; the step in which the write settles, with success or
\* with a rejection, leaves every field of the session state as it is and
\* returns success = true with that user.  The step in which the write of a
\* toggle settles, with success or with a rejection, leaves the flipped mode.
C15_StoreFailureNotSurfaced ==
  [][/\ \A i \in 1..Len(calls) :
          /\ calls[i].pc = "delay" /\ calls'[i].pc # "delay" =>
               /\ authState'.user = calls'[i].mockUser
               /\ authState'.user # null
               /\ authState'.isAuthenticated
          /\ SaveReturns(i) =>
               /\ authState' = authState
               /\ themeState' = themeState
               /\ calls'[i].result =
                    [success |-> TRUE, user |-> calls[i].mockUser]
     /\ Len(themeSaves') < Len(themeSaves) =>
          /\ themeState' = themeState
          /\ authState' = authState]_vars

\* a signup has returned success and a toggle has flipped the mode to dark
\* while both writes were rejected: neither key holds the new value and the
\* in-memory state holds both
C15_Witness ==
  /\ Len(calls) = 1 /\ calls[1].op = "signup" /\ calls[1].pc = "returned"
  /\ calls[1].result.success
  /\ authState.isAuthenticated /\ authState.user = calls[1].result.user
  /\ kv[AUTH_USER_KEY] # Stored(JSONstringify(calls[1].result.user))
  /\ toggles = 1 /\ themeSaves = <<>>
  /\ themeInit.pc = "done" /\ themeInit.savedTheme = Absent
  /\ themeState.theme = dark
  /\ kv[THEME_STORAGE_KEY] = Absent

\* C16: whenever every call made has returned, isLoading is false; and a login
\* or signup that returns a failure leaves isLoading = false at its return.
C16_SettledNotLoading ==
  /\ [](AllReturned => ~authState.isLoading)
  /\ [][\A i \in 1..Len(calls) :
          /\ calls[i].pc # "returned" /\ calls'[i].pc = "returned"
          /\ calls'[i].op \in {"login", "signup"}
          /\ ~calls'[i].result.success
          => ~authState'.isLoading]_vars

\* a login has failed after a signup succeeded: both have returned and
\* isLoading is false
C16_Witness ==
  /\ Len(calls) = 2 /\ AllReturned
  /\ calls[1].op = "signup" /\ calls[1].result.success
  /\ calls[2].op = "login" /\ ~calls[2].result.success
  /\ ~authState.isLoading

\* C17 as stated: in every reachable state in which a login, signup or logout
\* call has started its asynchronous work and has not yet returned, isLoading
\* is true.
C17_LoadingWhileInFlight ==
  \A i \in 1..Len(calls) :
    calls[i].pc \in {"delay", "saving", "removing"} => authState.isLoading

\* C18 as stated: the user of every successful login or signup has an id that
\* differs from the id of every user created by an earlier or concurrent
\* successful login or signup.
C18_IdsDistinct ==
  \A i, j \in 1..Len(calls) :
    i # j /\ calls[i].mockUser # null /\ calls[j].mockUser # null =>
      calls[i].mockUser.obj.id.str # calls[j].mockUser.obj.id.str

\* the calls that have not returned
InFlight == {i \in 1..Len(calls) : calls[i].pc # "returned"}

\* C19 as stated: with the reference screens as the only callers, at most one
\* of login, signup and logout is in flight at any time, a call being in
\* flight until it returns.
C19_OneInFlight == Cardinality(InFlight) <= 1

\* the steps in which an operation issues its call to the key-value store:
\* login and signup when the timer has fired, logout when it is called, toggle
\* when it is called
IssuesWrite(i) ==
  i <= Len(calls) /\ calls[i].pc = "delay" /\ calls'[i].pc = "saving"
IssuesRemove(i) == CallStep(i) /\ calls'[i].op = "logout"
IssuesThemeWrite == Len(themeSaves') = Len(themeSaves) + 1

\* C20 as stated: login, signup, logout and toggle apply their in-memory state
\* update before they issue their call to the key-value store: when the call
\* is issued the in-memory state no longer shows the pre-operation value.
C20_MemoryBeforeStore ==
  [][/\ \A i \in 1..Len(calls') :
          /\ IssuesWrite(i) =>
               authState'.user = calls'[i].mockUser
                 /\ authState'.isAuthenticated
          /\ IssuesRemove(i) =>
               authState'.user = null /\ ~authState'.isAuthenticated
     /\ IssuesThemeWrite =>
          /\ themeState'.theme = themeSaves'[Len(themeSaves')]
          /\ themeState'.theme # themeState.theme]_vars

\* C20 amended: login, signup and toggle apply their in-memory state update
\* before they issue their write: when the write is issued the session holds
\* the new user, and the preference holds the mode the toggle computed, the
\* opposite of the mode of the last render, which is the value written.
\* logout issues its remove first, the session state being as it was before
\* the call, and sets the logged-out state when the remove has settled.
C20_MemoryBeforeStoreButLogout ==
  [][/\ \A i \in 1..Len(calls') :
          /\ IssuesWrite(i) =>
               /\ authState'.user = calls'[i].mockUser
               /\ authState'.isAuthenticated
               /\ calls'[i].userData = JSONstringify(authState'.user)
          /\ IssuesRemove(i) => authState' = authState
          /\ i <= Len(calls) /\ LogoutReturns(i) =>
               authState'.user = null /\ ~authState'.isAuthenticated
     /\ IssuesThemeWrite =>
          /\ themeState'.theme = themeSaves'[Len(themeSaves')]
          /\ themeState'.theme = newTheme(renderedTheme)]_vars

\* a logout has issued its remove and a toggle its write: the session still
\* shows the user of before the logout, the preference shows the flipped mode
C20_Witness ==
  /\ Len(calls) = 1 /\ calls[1].op = "logout" /\ calls[1].pc = "removing"
  /\ authState.isAuthenticated /\ authState.user # null
  /\ themeSaves = <<dark>> /\ themeState.theme = dark
  /\ kv[THEME_STORAGE_KEY] # Stored(dark)

\* the step in which loadTheme resumes after its getItem
ThemeRestoreCompletes == themeInit.pc = "reading" /\ themeInit'.pc = "done"

\* C21: when the preference restore completes with no toggle called before
\* it, the mode is the stored value if that value is exactly light or dark,
\* and the default light for every other stored value, for an absent key and
\* for a failed read; isLoading is false in all of these cases.
C21_ThemeRestore ==
  [][ThemeRestoreCompletes /\ toggles = 0 =>
       /\ themeInit'.savedTheme \in {kv[THEME_STORAGE_KEY], IOError}
       /\ themeState'.theme =
            IF themeInit'.savedTheme = Stored(<<"d", "a", "r", "k">>)
              THEN <<"d", "a", "r", "k">>
              ELSE <<"l", "i", "g", "h", "t">>
       /\ ~themeState'.isLoading]_vars

\* the restore has read the stored value dark and adopted it
C21_Witness ==
  /\ themeInit.pc = "done" /\ themeInit.savedTheme = Stored(dark)
  /\ toggles = 0
  /\ themeState.theme = dark /\ ~themeState.isLoading

\* the mode the preference restore has left
RestoredTheme ==
  IF themeInit.savedTheme \in {Stored(light), Stored(dark)}
    THEN themeInit.savedTheme.value
    ELSE light

\* C22 as stated: toggle called twice returns the mode to its original value,
\* and once the writes of the toggles have settled the value persisted under
\* the preference key equals the in-memory mode, for any timing of the two
\* calls and of the completion of their writes.
C22_ToggleTwiceRestores ==
  /\ themeInit.pc = "done" /\ toggles = 2 => themeState.theme = RestoredTheme
  /\ themeInit.pc = "done" /\ toggles > 0 /\ themeSaves = <<>> =>
       kv[THEME_STORAGE_KEY] = Stored(themeState.theme)

\* a step of the Session Store (restore, login, signup, logout) and a step of
\* the Preference Store (restore, toggle and the write of a toggle)
SessionStoreStep ==
  authInit' # authInit \/ authState' # authState \/ calls' # calls
PreferenceStoreStep ==
  themeInit' # themeInit \/ themeState' # themeState
    \/ themeSaves' # themeSaves

\* C23: the two stores use disjoint keys: a step of the Session Store leaves
\* the entry of the preference key as it is and reads the user key only, a
\* step of the Preference Store leaves the entry of the user key as it is and
\* reads the preference key only.
C23_DisjointKeys ==
  [][/\ SessionStoreStep =>
          /\ kv'[THEME_STORAGE_KEY] = kv[THEME_STORAGE_KEY]
          /\ RestoreCompletes =>
               authInit'.userData \in {kv[AUTH_USER_KEY], IOError}
     /\ PreferenceStoreStep =>
          /\ kv'[AUTH_USER_KEY] = kv[AUTH_USER_KEY]
          /\ ThemeRestoreCompletes =>
               themeInit'.savedTheme \in {kv[THEME_STORAGE_KEY], IOError}]_vars

\* a signup and a toggle have both written their entry: each key holds the
\* value of its own store
C23_Witness ==
  /\ Len(calls) = 1 /\ calls[1].op = "signup" /\ calls[1].pc = "returned"
  /\ calls[1].result.success
  /\ kv[AUTH_USER_KEY] = Stored(JSONstringify(calls[1].result.user))
  /\ toggles > 0 /\ themeSaves = <<>>
  /\ themeInit.savedTheme = Absent
  /\ kv[THEME_STORAGE_KEY] = Stored(themeState.theme)

\* C24 as stated: the restores of the two stores are independent: the read of
\* the session restore is issued at process start whether or not the
\* preference restore has completed, so the session leaves the initializing
\* state even if the preference read never completes (no fairness is assumed
\* of the getItem of loadTheme).
C24_SessionRestoreIndependent == <>(~authState.isInitializing)

\* C25 as stated: the validation of the store and the validation of the
\* screen agree: LoginScreen's validateForm accepts an input exactly when the
\* validation of login accepts it, and SignupScreen's validateForm accepts an
\* input exactly when the validation of signup accepts it.
C25_ValidationsAgree ==
  \A i \in 1..Len(calls) :
    /\ calls[i].op = "login" =>
         (loginFormValid(calls[i].credentials.email,
                         calls[i].credentials.password)
            <=> ~LoginRejected(calls[i].credentials))
    /\ calls[i].op = "signup" =>
         (signupFormValid(calls[i].credentials.name,
                          calls[i].credentials.email,
                          calls[i].credentials.password)
            <=> ~SignupRejected(calls[i].credentials))

\* C26 as stated: after a signup has returned success the app shows the Login
\* screen, and the Home screen is reached only after a later successful
\* login; a failed login leaves the app on the Login screen.
C26_SignupLeadsToLogin ==
  \A i \in 1..Len(calls) :
    /\ calls[i].op = "signup" /\ calls[i].pc = "returned"
         /\ calls[i].result.success
         /\ (\A j \in (i + 1)..Len(calls) : calls[j].mockUser = null)
       => AuthNavigator
    /\ calls[i].op = "login" /\ calls[i].pc = "returned"
         /\ ~calls[i].result.success /\ i = Len(calls)
       => AuthNavigator

\* C27 as stated: once a logout has returned, no login or signup that was
\* called before that logout authenticates the session or writes the user
\* record, and no restore whose read was pending authenticates the session.
C27_LogoutIsFinal ==
  [][\A i \in 1..Len(calls) :
       calls[i].op = "logout" /\ calls[i].pc = "returned" =>
         /\ \A j \in 1..(i - 1) :
              /\ ~(calls[j].pc = "delay" /\ calls'[j].pc = "saving")
              /\ ~(SaveReturns(j) /\ kv'[AUTH_USER_KEY] # kv[AUTH_USER_KEY])
         /\ ~(RestoreCompletes /\ authState'.isAuthenticated)]_vars

\* the restore has completed and no login, signup or logout is in flight
Quiescent == authInit.pc = "done" /\ AllReturned

\* the user a restore would find under the user key, null when it would
\* find none
PersistedUser ==
  IF truthy(loadUserFromStorage(kv[AUTH_USER_KEY]))
    THEN loadUserFromStorage(kv[AUTH_USER_KEY])
    ELSE null

\* C28 as stated: in every quiescent state reached without a storage
\* failure, the user record is present exactly when isAuthenticated is true
\* and, when present, is the serialised in-memory user.
C28_QuiescentAgreement ==
  Quiescent =>
    /\ authState.isAuthenticated <=> PersistedUser # null
    /\ PersistedUser = authState.user

\* C29 as stated: a toggle made while the restore read is pending is not
\* undone by the restore: when the read settles the mode stays the toggled
\* value and, the toggle's write having settled, it is the value stored
\* under the preference key.
C29_ToggleSurvivesRestore ==
  [][ThemeRestoreCompletes /\ toggles > 0 =>
       /\ themeState'.theme = themeState.theme
       /\ themeSaves = <<>> =>
            kv'[THEME_STORAGE_KEY] = Stored(themeState'.theme)]_vars

\* C30: the delay elapsing and every setItem settling, every login and signup
\* that was called returns; its result has success = true exactly when the
\* credentials pass the validation of the operation; a success result carries
\* the user of the call and a failure result carries an error message.
C30_CallReturns ==
  /\ \A i \in 1..MaxCalls :
       (Len(calls) >= i) ~> (Len(calls) >= i /\ calls[i].pc = "returned")
  /\ [](\A i \in 1..Len(calls) :
          calls[i].pc = "returned" =>
            /\ calls[i].result.success <=> ~FailsValidation(calls[i])
            /\ calls[i].result.success =>
                 /\ calls[i].result.user # null
                 /\ calls[i].result.user = calls[i].mockUser
                 /\ calls[i].result.user.obj.email.str
                      = calls[i].credentials.email
            /\ ~calls[i].result.success =>
                 /\ calls[i].result.error # NoError
                 /\ calls[i].result.error # "")

\* a login and a signup have both returned, one with a user after a rejected
\* setItem and one with an error message
C30_Witness ==
  \E i, j \in 1..Len(calls) :
    /\ calls[i].pc = "returned" /\ calls[i].result.success
    /\ calls[i].result.user # null
    /\ kv[AUTH_USER_KEY] # Stored(calls[i].userData)
    /\ calls[j].pc = "returned" /\ ~calls[j].result.success
    /\ calls[i].op # calls[j].op

====
